---- MODULE Spec2Model ----
(***************************************************************************)
(* promise-events: an EventEmitter whose emit() awaits the listeners.      *)
(*                                                                         *)
(* The model is the emitter of src/emitter.js run by a JavaScript engine:  *)
(* one thread, a synchronous call stack and a FIFO queue of promise jobs.  *)
(* A state is a point at which code that is not the emitter's runs next    *)
(* (a listener is about to be invoked, a promise job is about to run, or   *)
(* the caller is between two calls); everything the emitter does between   *)
(* two such points is one step.                                            *)
(***************************************************************************)
EXTENDS Integers, Sequences, FiniteSets, TLC

\* ------------------------------------------------------------------ bounds
MaxCalls == 3          \* calls made by the program that owns the emitter
MaxDepth == 5          \* frames on the call stack (a deeper call is not made)

\* ------------------------------------------------------------------ values
Types == {"foo", "newListener", "removeListener", "error"}

\* The functions the program registers, by what their bodies do.
Fns == 1..9
NumFns == Cardinality(Fns)
Body(l) ==
  CASE l = 1 -> [act |-> "return", type |-> "", l |-> 0]             \* function () {}
    [] l = 2 -> [act |-> "throw",  type |-> "", l |-> 0]             \* throw new Error('Test')
    [] l = 3 -> [act |-> "async",  type |-> "", l |-> 0]             \* returns a pending promise
    [] l = 4 -> [act |-> "emit",   type |-> "foo", l |-> 0]          \* return events.emit('foo')
    [] l = 5 -> [act |-> "emit",   type |-> "removeListener", l |-> 0]
    [] l = 6 -> [act |-> "off",    type |-> "foo", l |-> 1]          \* return events.removeListener('foo', fn1)
    [] l = 7 -> [act |-> "on",     type |-> "foo", l |-> 1]          \* return events.on('foo', fn1)
    [] l = 8 -> [act |-> "emit1",  type |-> "foo", l |-> 0]          \* the first time only: return events.emit('foo')
    [] OTHER -> [act |-> "filter", type |-> "", l |-> 2]             \* events.resultFilter = filter2

\* A value a call returns: a plain value, or a reference to a promise.
Undefined == 0
ArrTok == 0 - 1        \* stands for an array held as a promise's value (its items are in res)
Val(v) == [p |-> FALSE, v |-> v]
Ref(q) == [p |-> TRUE, v |-> q]

\* The Error a listener throws (or rejects with) when invoked as the i-th of a snapshot.
Err(l, i) == 100 + 10 * i + l
IsError(v) == v >= 100
\* emit('error', er) without a handler: lines 69-80.
GenericError == 999
WrapError(v) == 1000 + v
\* An event type passed as an argument (to newListener / removeListener subscribers).
TypeArg(t) ==
  CASE t = "foo" -> 0 - 11 [] t = "newListener" -> 0 - 12
    [] t = "removeListener" -> 0 - 13 [] OTHER -> 0 - 14

\* ------------------------------------------------------------------ state
VARIABLES
  objs,            \* the objects ever assigned to this._events: [keys, slots]
  arrs,            \* the listener arrays ever created (a slot refers to one by index)
  _events,         \* this._events: an index into objs
  _eventsCount,    \* this._eventsCount
  wrappers,        \* the closures g made by once(): [type, listener, fired, ...history]
  promises,        \* every promise created
  jobs,            \* the promise job (microtask) queue
  stack,           \* the synchronous call stack of emitter frames
  clock,           \* counts promise settlements (orders them in time)
  thrown,          \* what the last call threw into its caller ("" if nothing)
  call,            \* the program's last call, how many it made, and (history) the
                   \* listeners, the count, the result filter and the number of
                   \* promises this call found
  out,             \* what the last call returned to the program
  emittedExtraEvent, \* the flag of the function that re-emits only once
  _resultFilter,   \* this._resultFilter (0: undefined)
  defaultResultFilter, \* EventEmitter.defaultResultFilter, set or not before construction
  notified         \* (history) what happened since the program's last call, in order:
                   \* the newListener / removeListener emissions the emitter made to
                   \* subscribers [type, args], and the insertions ("inserted"), the
                   \* invocations of listeners ("invoked"), the runs of the
                   \* listeners of once wrappers ("ran"), and the return of the call
                   \* to the program ("returned")

vars == <<objs, arrs, _events, _eventsCount, wrappers, promises, jobs, stack,
          clock, thrown, call, out, emittedExtraEvent, _resultFilter,
          defaultResultFilter, notified>>

\* The state as one record, so that the emitter's code composes sequentially.
S == [objs |-> objs, arrs |-> arrs, ev |-> _events, cnt |-> _eventsCount,
      wrappers |-> wrappers, promises |-> promises, jobs |-> jobs,
      stack |-> stack, clock |-> clock, thrown |-> thrown, out |-> out,
      flag |-> emittedExtraEvent,
      rf |-> _resultFilter, drf |-> defaultResultFilter, notified |-> notified]

Commit(s) ==
  /\ objs' = s.objs /\ arrs' = s.arrs /\ _events' = s.ev
  /\ _eventsCount' = s.cnt /\ wrappers' = s.wrappers
  /\ promises' = s.promises /\ jobs' = s.jobs /\ stack' = s.stack
  /\ clock' = s.clock /\ thrown' = s.thrown /\ out' = s.out
  /\ emittedExtraEvent' = s.flag
  /\ _resultFilter' = s.rf /\ defaultResultFilter' = s.drf
  /\ notified' = s.notified

\* ------------------------------------------------------------------ registry objects
NoSlot == [k |-> "none", v |-> 0]
EmptyObj == [keys |-> <<>>, slots |-> [t \in Types |-> NoSlot]]

Slot(s, o, t) == s.objs[o].slots[t]
\* The listeners of a slot, in order (a single function is a slot of one).
SlotList(s, slot) ==
  CASE slot.k = "fn" -> <<slot.v>>
    [] slot.k = "arr" -> s.arrs[slot.v]
    [] OTHER -> <<>>

\* events[type] = slot (a new key goes last in the object's key order).
SetSlot(s, o, t, slot) ==
  [s EXCEPT !.objs[o].slots[t] = slot,
            !.objs[o].keys = IF s.objs[o].slots[t].k = "none" THEN Append(@, t) ELSE @]
\* delete events[type]
DeleteSlot(s, o, t) ==
  [s EXCEPT !.objs[o].slots[t] = NoSlot,
            !.objs[o].keys = SelectSeq(@, LAMBDA k : k # t)]
\* this._events = {}
ResetEvents(s) ==
  [s EXCEPT !.objs = Append(@, EmptyObj), !.ev = Len(s.objs) + 1]

IsWrapper(l) == l > NumFns
Wrapper(s, l) == s.wrappers[l - NumFns]
\* listener.listener ? listener.listener : listener
Underlying(s, l) == IF IsWrapper(l) THEN Wrapper(s, l).listener ELSE l

\* ------------------------------------------------------------------ promises
BlankPromise ==
  [st |-> "pending", val |-> 0, res |-> <<>>, at |-> 0, born |-> 0, kind |-> "plain",
   elems |-> <<>>, hs |-> <<>>, snap |-> <<>>, left |-> 0, src |-> 0, fn |-> 0, site |-> 0,
   reactions |-> <<>>]
BlankJob ==
  [k |-> "", p |-> 0, src |-> Val(0), i |-> 0, cb |-> "", g |-> 0, args |-> <<>>]

LastPromise(s) == Len(s.promises)
NewPromise(s, rec) ==
  [s EXCEPT !.promises = Append(@, [rec EXCEPT !.born = s.clock])]
\* Promise.resolve(v) / Promise.reject(err): settled when created.
Settled(s, st, val) ==
  [NewPromise(s, [BlankPromise EXCEPT !.st = st, !.val = val, !.at = s.clock + 1])
     EXCEPT !.clock = @ + 1]

\* A pending promise settles: its reactions become jobs, in registration order.
SettlePromise(s, q, st, val, res) ==
  IF s.promises[q].st # "pending" THEN s
  ELSE [s EXCEPT !.promises[q] = [@ EXCEPT !.st = st, !.val = val, !.res = res,
                                           !.at = s.clock + 1, !.reactions = <<>>],
                 !.jobs = @ \o s.promises[q].reactions,
                 !.clock = @ + 1]

\* q.then(...): the reaction waits on q, or is queued at once when q is settled.
AddReaction(s, q, job) ==
  IF s.promises[q].st = "pending"
  THEN [s EXCEPT !.promises[q].reactions = Append(@, job)]
  ELSE [s EXCEPT !.jobs = Append(@, job)]

\* q.then(cb): the derived promise is the new last promise.
Then(s, q, cb, g, args) ==
  LET s1 == NewPromise(s, [BlankPromise EXCEPT !.kind = cb, !.src = q])
  IN AddReaction(s1, q, [BlankJob EXCEPT !.k = "then", !.p = LastPromise(s1),
                                         !.src = Ref(q), !.cb = cb, !.g = g, !.args = args])

\* Promise.all(elems): each element is awaited in order; the result is the new last promise.
RECURSIVE AllSubscribe(_, _, _, _)
AllSubscribe(s, P, elems, i) ==
  IF i > Len(elems) THEN s
  ELSE LET job == [BlankJob EXCEPT !.k = "allElem", !.p = P, !.src = elems[i], !.i = i]
           s1 == IF elems[i].p THEN AddReaction(s, elems[i].v, job)
                 ELSE [s EXCEPT !.jobs = Append(@, job)]
       IN AllSubscribe(s1, P, elems, i + 1)

PromiseAll(s, elems) ==
  LET s1 == NewPromise(s, [BlankPromise EXCEPT !.kind = "all", !.elems = elems,
                                               !.left = Len(elems),
                                               !.res = [i \in 1..Len(elems) |-> Undefined]])
  IN AllSubscribe(s1, LastPromise(s1), elems, 1)

\* The resolve function of promise q called with rv: a promise is adopted two jobs later.
Resolve(s, q, rv) ==
  IF rv.p
  THEN [s EXCEPT !.jobs = Append(@, [BlankJob EXCEPT !.k = "thenable", !.p = q, !.src = rv])]
  ELSE SettlePromise(s, q, "fulfilled", rv.v, <<>>)

\* ------------------------------------------------------------------ the call stack
Top(s) == s.stack[Len(s.stack)]
Pop(s) == [s EXCEPT !.stack = SubSeq(@, 1, Len(@) - 1)]
Push(s, f) == [s EXCEPT !.stack = Append(@, f)]

RECURSIVE Return(_, _), StartEmit(_, _, _), StartRemove(_, _, _)
RECURSIVE StartRemoveAll(_, _, _), RemoveAllKeys(_), RemoveAllOf(_)

\* get resultFilter
ResultFilter(s) == IF s.rf = Undefined /\ s.drf # Undefined THEN s.drf ELSE s.rf

\* ------------------------------------------------------------------ emit
\* (mutant) the error of an unhandled 'error' event without its payload.
ErrorOfGeneric(args) == GenericError

\* er = arguments[1], wrapped when it is no Error, generated when it is missing.
ErrorOf(args) ==
  IF Len(args) >= 1 /\ args[1] # Undefined
  THEN (IF IsError(args[1]) THEN args[1] ELSE WrapError(args[1]))
  ELSE GenericError

\* emit(type, ...args) up to the invocation of the first handler.
StartEmit(s, type, args) ==
  LET resultFilter == ResultFilter(s)
      events == s.ev
      doError == type = "error" /\ Slot(s, events, "error").k = "none"
      er == ErrorOf(args)
      handlers == Slot(s, events, type)
  IN IF doError
     THEN LET s1 == Settled(s, "rejected", er) IN Return(s1, Ref(LastPromise(s1)))
     ELSE IF handlers.k = "none"
     THEN LET s1 == Settled(s, "fulfilled", Undefined) IN Return(s1, Ref(LastPromise(s1)))
     ELSE Push(s, [k |-> "emit", type |-> type, handlers |-> SlotList(s, handlers),
                   began |-> SlotList(s, handlers),
                   i |-> 1, results |-> <<>>, invoked |-> <<>>, args |-> args,
                   filter |-> resultFilter])

\* (mutant) No snapshot: the emission iterates over the slot as it is now.
HandlersLive(s, f) == SlotList(s, Slot(s, s.ev, f.type))

\* The snapshot an emission in progress iterates over.
Handlers(s, f) == f.handlers

\* ------------------------------------------------------------------ addListener
\* The insertion of addListener, into the object it read this._events from.
Insert(s, events, type, listener) ==
  LET existing == Slot(s, events, type)
      s1 == CASE existing.k = "none" ->
                   SetSlot(s, events, type, [k |-> "fn", v |-> listener])
              [] existing.k = "fn" ->
                   SetSlot([s EXCEPT !.arrs = Append(@, <<existing.v, listener>>)],
                           events, type, [k |-> "arr", v |-> Len(s.arrs) + 1])
              [] OTHER ->
                   [s EXCEPT !.arrs[existing.v] = Append(@, listener)]
  IN [s1 EXCEPT !.cnt = @ + 1,
                !.notified = Append(@, [type |-> "inserted",
                                        args |-> <<TypeArg(type), listener>>])]

\* (mutant) no check of the listener.
IsFunctionAny(l) == TRUE

\* typeof listener === 'function' (what is no function is modelled by undefined).
IsFunction(l) == l # Undefined
\* throw new TypeError('listener must be a function'), into the program.
ThrowInvalid(s) == [s EXCEPT !.thrown = "listener must be a function", !.stack = <<>>]

\* The object addListener inserts into, after the newListener emission returned.
AddTarget(s, f) == f.events

\* (mutant) addListener that inserts before it emits newListener.
StartAddFirst(s, type, listener) ==
  LET events == s.ev IN
  IF ~IsFunction(listener) THEN ThrowInvalid(s)
  ELSE LET s1 == Settled(Insert(s, events, type, listener), "fulfilled", Undefined)
       IN IF Slot(s, events, "newListener").k # "none"
          THEN StartEmit([s1 EXCEPT !.notified =
                            Append(@, [type |-> "newListener",
                                       args |-> <<TypeArg(type), Underlying(s, listener)>>])],
                         "newListener", <<TypeArg(type), Underlying(s, listener)>>)
          ELSE Return(s1, Ref(LastPromise(s1)))

\* addListener(type, listener).
StartAdd(s, type, listener) ==
  LET events == s.ev IN
  IF ~IsFunction(listener) THEN ThrowInvalid(s)
  ELSE IF Slot(s, events, "newListener").k # "none"
  THEN StartEmit(Push([s EXCEPT !.notified =
                              Append(@, [type |-> "newListener",
                                         args |-> <<TypeArg(type), Underlying(s, listener)>>])],
                      [k |-> "add", type |-> type, listener |-> listener,
                       events |-> events]),
                 "newListener", <<TypeArg(type), Underlying(s, listener)>>)
  ELSE LET s1 == Settled(Insert(s, events, type, listener), "fulfilled", Undefined)
       IN Return(s1, Ref(LastPromise(s1)))

\* ------------------------------------------------------------------ once
NewWrapper(type, listener) ==
  [type |-> type, listener |-> listener, fired |-> FALSE,
   runs |-> 0, rm |-> 0, cancelled |-> FALSE]

\* once(type, listener) with two arguments: g is the new last wrapper.
StartOnce(s, type, listener) ==
  LET s1 == [s EXCEPT !.wrappers = Append(@, NewWrapper(type, listener))]
  IN IF ~IsFunction(listener) THEN ThrowInvalid(s)
     ELSE StartAdd(s1, type, NumFns + Len(s1.wrappers))

\* ------------------------------------------------------------------ removeListener
\* (mutant) the match by identity alone.
MatchesIdentity(s, entry, listener) == entry = listener

\* list[i] === listener || (list[i].listener && list[i].listener === listener)
Matches(s, entry, listener) ==
  entry = listener \/ (IsWrapper(entry) /\ Wrapper(s, entry).listener = listener)

\* (mutant) a scan from the start: the index of the first match.
PositionFirst(s, list, listener, i) ==
  IF \E k \in 1..i : Matches(s, list[k], listener)
  THEN CHOOSE k \in 1..i :
         Matches(s, list[k], listener) /\ \A j \in 1..(k - 1) : ~Matches(s, list[j], listener)
  ELSE 0

\* The scan from the end: the index of the last match, 0 when there is none.
RECURSIVE Position(_, _, _, _)
Position(s, list, listener, i) ==
  IF i = 0 THEN 0
  ELSE IF Matches(s, list[i], listener) THEN i
  ELSE Position(s, list, listener, i - 1)

Splice(list, position) ==
  SubSeq(list, 1, position - 1) \o SubSeq(list, position + 1, Len(list))

\* What removeListener passes to the removeListener subscribers.
Removed(s, type, listener) == <<TypeArg(type), listener>>

\* (mutant) a removal that notifies nobody.
NotifySilent(s, events, type, listener) ==
  LET s1 == Settled(s, "fulfilled", Undefined) IN Return(s1, Ref(LastPromise(s1)))

\* if (events.removeListener) promise = this.emit('removeListener', type, listener);
\* return promise || Promise.resolve();
Notify(s, events, type, listener) ==
  IF Slot(s, events, "removeListener").k # "none"
  THEN StartEmit([s EXCEPT !.notified = Append(@, [type |-> "removeListener",
                                                   args |-> Removed(s, type, listener)])],
                 "removeListener", Removed(s, type, listener))
  ELSE LET s1 == Settled(s, "fulfilled", Undefined) IN Return(s1, Ref(LastPromise(s1)))

\* removeListener(type, listener).
StartRemove(s, type, listener) ==
  LET events == s.ev
      list == Slot(s, events, type)
      resolved == LET s1 == Settled(s, "fulfilled", Undefined)
                  IN Return(s1, Ref(LastPromise(s1)))
  IN
  IF ~IsFunction(listener) THEN ThrowInvalid(s)
  ELSE IF list.k = "none" THEN resolved
  ELSE IF list.k = "fn" /\ Matches(s, list.v, listener)
  THEN IF s.cnt - 1 = 0
       THEN LET s1 == Settled(ResetEvents([s EXCEPT !.cnt = 0]), "fulfilled", Undefined)
            IN Return(s1, Ref(LastPromise(s1)))
       ELSE Notify(DeleteSlot([s EXCEPT !.cnt = @ - 1], events, type),
                   events, type, listener)
  ELSE IF list.k = "arr"
  THEN LET arr == s.arrs[list.v]
           position == Position(s, arr, listener, Len(arr))
       IN IF position = 0 THEN resolved
          ELSE IF Len(arr) = 1
          THEN LET s0 == [s EXCEPT !.arrs[list.v] = <<Undefined>>] IN
               IF s.cnt = 1
               THEN LET s1 == Settled(ResetEvents([s0 EXCEPT !.cnt = 0]),
                                      "fulfilled", Undefined)
                    IN Return(s1, Ref(LastPromise(s1)))
               ELSE Notify(DeleteSlot([s0 EXCEPT !.cnt = @ - 1], events, type),
                           events, type, listener)
          ELSE LET spliced == Splice(arr, position)
                   s0 == [s EXCEPT !.arrs[list.v] = spliced]
                   s1 == IF Len(spliced) = 1
                         THEN SetSlot(s0, events, type, [k |-> "fn", v |-> spliced[1]])
                         ELSE s0
               IN Notify([s1 EXCEPT !.cnt = @ - 1], events, type, listener)
  ELSE resolved

\* ------------------------------------------------------------------ removeAllListeners
\* promise = promise && promise.then(x) || x, where x is the promise a removal returned:
\* then() ignores an argument that is not a function.
Chain(s, promise, x) ==
  IF promise = 0 THEN [st |-> s, promise |-> x.v]
  ELSE LET s1 == Then(s, promise, "pass", 0, <<>>)
       IN [st |-> s1, promise |-> LastPromise(s1)]

\* (mutant) every slot counted as one listener.
ListenerCountOne(s, slot) == 1

\* typeof events[type] === 'function' ? 1 : events[type].length
ListenerCount(s, slot) == IF slot.k = "fn" THEN 1 ELSE Len(s.arrs[slot.v])

\* removeAllListeners(type) (hasType) or removeAllListeners().
StartRemoveAll(s, hasType, type) ==
  LET events == s.ev
      resolved(s0) == LET s1 == Settled(s0, "fulfilled", Undefined)
                      IN Return(s1, Ref(LastPromise(s1)))
  IN
  IF Slot(s, events, "removeListener").k = "none"
  THEN \* not listening for removeListener, no need to emit
       IF ~hasType THEN resolved(ResetEvents([s EXCEPT !.cnt = 0]))
       ELSE IF Slot(s, events, type).k # "none"
       THEN IF s.cnt = 1 THEN resolved(ResetEvents([s EXCEPT !.cnt = 0]))
            ELSE resolved(DeleteSlot(
                   [s EXCEPT !.cnt = @ - ListenerCount(s, Slot(s, events, type))],
                   events, type))
       ELSE resolved(s)
  ELSE IF ~hasType
  THEN RemoveAllKeys(Push(s, [k |-> "allKeys", keys |-> s.objs[events].keys,
                              i |-> 1, promise |-> 0]))
  ELSE LET listeners == Slot(s, events, type) IN
       IF listeners.k = "fn" THEN StartRemove(s, type, listeners.v)
       ELSE IF listeners.k = "arr"
       THEN RemoveAllOf(Push(s, [k |-> "allOf", type |-> type, listeners |-> listeners.v,
                                 i |-> Len(s.arrs[listeners.v]), promise |-> 0]))
       ELSE resolved(s)

\* (mutant) no key is skipped.
SkipNone(key) == FALSE

\* if (key === 'removeListener') continue;
SkipKey(key) == key = "removeListener"

\* The loop over Object.keys(events), then 'removeListener', then the reset.
RemoveAllKeys(s) ==
  LET f == Top(s)
      next == [s EXCEPT !.stack[Len(s.stack)].i = @ + 1]
  IN IF f.i <= Len(f.keys)
     THEN IF SkipKey(f.keys[f.i]) THEN RemoveAllKeys(next)
          ELSE StartRemoveAll(next, TRUE, f.keys[f.i])
     ELSE IF f.i = Len(f.keys) + 1
     THEN StartRemoveAll(next, TRUE, "removeListener")
     ELSE Return(ResetEvents([Pop(s) EXCEPT !.cnt = 0]), Ref(f.promise))

\* The loop over the listeners of one type, last first: listeners[i] is read from the
\* array as it is by then, and removeListener throws when it is no function.
RemoveAllOf(s) ==
  LET f == Top(s)
      listeners == s.arrs[f.listeners]
  IN IF f.i < 1
     THEN (IF f.promise = 0
           THEN LET s1 == Settled(Pop(s), "fulfilled", Undefined)
                IN Return(s1, Ref(LastPromise(s1)))
           ELSE Return(Pop(s), Ref(f.promise)))
     ELSE IF f.i > Len(listeners) \/ listeners[f.i] = Undefined
     THEN ThrowInvalid(s)
     ELSE StartRemove(s, f.type, listeners[f.i])

\* ------------------------------------------------------------------ returning
\* g, once removeListener(type, g) returned promise rm:
\* rm.then(function () { return listener.apply(emitter, args); })
\* (mutant) The listener is called without waiting for the removal.
OnceNow(s, rm, g, args) ==
  LET s1 == Settled(s, "fulfilled", Undefined)
  IN Then(s1, LastPromise(s1), "under", g, args)

OnceThen(s, rm, g, args) == Then(s, rm, "under", g, args)

\* A call returns rv to the frame under it, which runs on to its next call.
Return(s, rv) ==
  IF s.stack = <<>>
  THEN [s EXCEPT !.out = rv,
                 !.notified = Append(@, [type |-> "returned", args |-> <<>>])]
  ELSE LET f == Top(s) IN
    CASE f.k = "emit" ->
           \* handlers.map collects the handler's result
           [s EXCEPT !.stack[Len(s.stack)] =
                        [f EXCEPT !.results = Append(@, rv), !.i = @ + 1]]
      [] f.k = "add" ->
           \* addListener after its newListener emission
           Return(Insert(Pop(s), AddTarget(s, f), f.type, f.listener), rv)
      [] f.k = "g" ->
           \* g: return emitter.removeListener(type, g).then(...)
           LET s1 == OnceThen([Pop(s) EXCEPT !.wrappers[f.g - NumFns].rm = rv.v],
                              rv.v, f.g, f.args)
           IN Return(s1, Ref(LastPromise(s1)))
      [] f.k = "allKeys" ->
           LET c == Chain(s, f.promise, rv)
           IN RemoveAllKeys([c.st EXCEPT !.stack[Len(s.stack)].promise = c.promise])
      [] f.k = "allOf" ->
           LET c == Chain(s, f.promise, rv)
           IN RemoveAllOf([c.st EXCEPT !.stack[Len(s.stack)].promise = c.promise,
                                       !.stack[Len(s.stack)].i = @ - 1])
      [] OTHER ->
           \* a promise job's callback returned: its derived promise is resolved
           Resolve(Pop(s), f.p, rv)

\* ------------------------------------------------------------------ invoking a listener
Throws(h) == ~IsWrapper(h) /\ Body(h).act = "throw"

\* (mutant) g neither removes itself nor keeps a fired flag.
CallWrapperPlain(s, g, args) ==
  LET s1 == Settled(s, "fulfilled", Undefined)
      s2 == Then(s1, LastPromise(s1), "under", g, args)
  IN Return(s2, Ref(LastPromise(s2)))

\* (mutant) g without its fired flag.
CallWrapperUnguarded(s, g, args) ==
  StartRemove(Push(s, [k |-> "g", g |-> g, args |-> args]), Wrapper(s, g).type, g)

\* The wrapper g of once().
CallWrapper(s, g, args) ==
  IF Wrapper(s, g).fired THEN Return(s, Val(Undefined))
  ELSE StartRemove(Push([s EXCEPT !.wrappers[g - NumFns].fired = TRUE],
                        [k |-> "g", g |-> g, args |-> args]),
                   Wrapper(s, g).type, g)

\* A function of the program is called (site tells its Error apart from others').
CallFn(s, l, args, site) ==
  LET b == Body(l) IN
  CASE b.act = "return" -> Return(s, Val(l))
    [] b.act = "throw" -> [s EXCEPT !.thrown = "Error", !.stack = <<>>]
    [] b.act = "async" ->
         LET s1 == NewPromise(s, [BlankPromise EXCEPT !.kind = "ext", !.fn = l,
                                                      !.site = site])
         IN Return(s1, Ref(LastPromise(s1)))
    [] b.act = "emit" -> StartEmit(s, b.type, <<>>)
    [] b.act = "emit1" ->
         IF s.flag THEN Return(s, Val(Undefined))
         ELSE StartEmit([s EXCEPT !.flag = TRUE], b.type, <<>>)
    [] b.act = "off" -> StartRemove(s, b.type, b.l)
    [] b.act = "filter" -> Return([s EXCEPT !.rf = b.l], Val(Undefined))
    [] OTHER -> StartAdd(s, b.type, b.l)

Call(s, h, args, site) ==
  IF IsWrapper(h) THEN CallWrapper(s, h, args) ELSE CallFn(s, h, args, site)

\* try { return handler.call(emitter, ...) } catch (err) { return Promise.reject(err) }
TryCall(s, h, args, site) ==
  IF Throws(h)
  THEN LET s1 == Settled(s, "rejected", Err(h, site)) IN Return(s1, Ref(LastPromise(s1)))
  ELSE Call(s, h, args, site)

\* The arguments each case of the switch over arguments.length passes on.
CaseArgs(args) ==
  CASE Len(args) = 0 -> <<>>
    [] Len(args) = 1 -> <<args[1]>>
    [] Len(args) = 2 -> <<args[1], args[2]>>
    [] Len(args) = 3 -> <<args[1], args[2], args[3]>>
    [] OTHER -> [i \in 1..Len(args) |-> args[i]]

\* (mutant) the switch with one case that has no try/catch.
InvokeCaseBare(s, h, args, site) ==
  IF Len(args) = 3 /\ Throws(h)
  THEN [s EXCEPT !.thrown = "Error", !.stack = <<>>]
  ELSE TryCall(s, h, CaseArgs(args), site)

\* The switch over arguments.length: one handler of the snapshot is invoked, in
\* every case inside try/catch.
InvokeCase(s, h, args, site) == TryCall(s, h, CaseArgs(args), site)

\* ------------------------------------------------------------------ promise jobs
\* results.filter(resultFilter): the filters the program sets, filter 1 keeping what
\* is not undefined and filter 2 what is the value fn1 returns.
Filters == {1, 2}
\* null, which the setter accepts as it accepts undefined.
Null == -1
FilterFn(f, v) == IF f = 1 THEN v # Undefined ELSE v = 1

\* (mutant) an aggregation that fulfils with its first fulfilled element.
AllElemRace(s, j) ==
  LET e == j.src
      v == IF e.p THEN s.promises[e.v].val ELSE e.v
  IN IF e.p /\ s.promises[e.v].st = "rejected"
     THEN SettlePromise(s, j.p, "rejected", v, <<>>)
     ELSE LET s1 == [s EXCEPT !.promises[j.p].res[j.i] = v,
                              !.promises[j.p].left = @ - 1]
          IN SettlePromise(s1, j.p, "fulfilled", ArrTok, s1.promises[j.p].res)

\* (mutant) an aggregation whose latest failure replaces the earlier one.
AllElemLast(s, j) ==
  LET e == j.src
      v == IF e.p THEN s.promises[e.v].val ELSE e.v
  IN IF e.p /\ s.promises[e.v].st = "rejected"
     THEN IF s.promises[j.p].st = "pending"
          THEN SettlePromise(s, j.p, "rejected", v, <<>>)
          ELSE [s EXCEPT !.promises[j.p].val = v]
     ELSE LET s1 == [s EXCEPT !.promises[j.p].res[j.i] = v,
                              !.promises[j.p].left = @ - 1]
          IN IF s1.promises[j.p].left = 0
             THEN SettlePromise(s1, j.p, "fulfilled", ArrTok, s1.promises[j.p].res)
             ELSE s1

\* Promise.all's reaction to its i-th element.
AllElem(s, j) ==
  LET e == j.src
      v == IF e.p THEN s.promises[e.v].val ELSE e.v
  IN IF e.p /\ s.promises[e.v].st = "rejected"
     THEN SettlePromise(s, j.p, "rejected", v, <<>>)
     ELSE LET s1 == [s EXCEPT !.promises[j.p].res[j.i] = v,
                              !.promises[j.p].left = @ - 1]
          IN IF s1.promises[j.p].left = 0
             THEN SettlePromise(s1, j.p, "fulfilled", ArrTok, s1.promises[j.p].res)
             ELSE s1

\* The reaction of q.then(cb).
ThenJob(s, j) ==
  LET q == s.promises[j.src.v] IN
  IF q.st = "rejected" THEN SettlePromise(s, j.p, "rejected", q.val, <<>>)
  ELSE CASE j.cb = "under" ->
              \* function () { return listener.apply(emitter, args); }
              LET l == Wrapper(s, j.g).listener
                  s1 == [s EXCEPT !.wrappers[j.g - NumFns].runs = @ + 1,
                                  !.notified = Append(@, [type |-> "ran", args |-> <<j.g>>])]
              IN IF Throws(l)
                 THEN SettlePromise(s1, j.p, "rejected", Err(l, j.g), <<>>)
                 ELSE Call(Push(s1, [k |-> "job", p |-> j.p]), l, j.args, j.g)
         [] j.cb = "filter" ->
              \* function (results) { return results.filter(resultFilter); }
              SettlePromise(s, j.p, "fulfilled", ArrTok,
                            SelectSeq(q.res, LAMBDA v : FilterFn(j.g, v)))
         [] OTHER ->
              \* then(x) with x not a function: the outcome passes through
              SettlePromise(s, j.p, q.st, q.val, q.res)

Job(s, j) ==
  CASE j.k = "allElem" -> AllElem(s, j)
    [] j.k = "then" -> ThenJob(s, j)
    [] j.k = "thenable" -> AddReaction(s, j.src.v, [j EXCEPT !.k = "adopt"])
    [] OTHER -> LET q == s.promises[j.src.v]
                IN SettlePromise(s, j.p, q.st, q.val, q.res)

\* ------------------------------------------------------------------ inputs
\* What the program registers and removes, and what it emits (type, number of arguments).
Listeners ==
  ({"foo"} \X {Undefined, 1, 2, 3, 4, 6, 7, 8}) \cup ({"newListener"} \X {1, 6})
    \cup ({"removeListener"} \X {1, 2, 3, 5}) \cup ({"error"} \X {1})
Removals == ({"foo"} \X {Undefined, 1, 2}) \cup ({"newListener", "removeListener"} \X {1})
Emits == (Types \X {0}) \cup ({"foo"} \X (1..4))
UserArgs(n) == [i \in 1..n |-> i]
\* The payloads of emit('error', er): an Error, and a value that is none.
UserError == Err(0, 0)
Payloads == {UserError, 1}

\* ------------------------------------------------------------------ the machine
Construct(default) ==
  /\ objs = <<EmptyObj>> /\ arrs = <<>> /\ _events = 1 /\ _eventsCount = 0
  /\ wrappers = <<>> /\ promises = <<>> /\ jobs = <<>> /\ stack = <<>>
  /\ clock = 0 /\ thrown = "" /\ out = Val(Undefined) /\ emittedExtraEvent = FALSE
  /\ call = [n |-> 0, op |-> "", type |-> "", l |-> 0, args |-> 0,
             reg |-> [x \in Types |-> <<>>], cnt |-> 0, rf |-> 0, own |-> 0, np |-> 0]
  /\ _resultFilter = Undefined /\ defaultResultFilter = default
  /\ notified = <<>>

\* new EventEmitter(), no default filter being set.
Init == Construct(Undefined)

\* The program makes its next call (it is not inside a call of the emitter).
Begin(op, t, l, n) ==
  /\ stack = <<>>
  /\ call.n < MaxCalls
  /\ call' = [n |-> call.n + 1, op |-> op, type |-> t, l |-> l, args |-> n,
              reg |-> [x \in Types |-> SlotList(S, Slot(S, _events, x))],
              cnt |-> _eventsCount, rf |-> ResultFilter(S), own |-> _resultFilter,
              np |-> Len(promises)]

Fresh == [S EXCEPT !.thrown = "", !.out = Val(Undefined), !.notified = <<>>]

CallOn(t, l) == Begin("on", t, l, 0) /\ Commit(StartAdd(Fresh, t, l))

CallOnce(t, l) == Begin("once", t, l, 0) /\ Commit(StartOnce(Fresh, t, l))

\* (history) The wrappers of once(t, l) that a removeListener(t, l) made now has to
\* remove: not fired, and the last entry of the slot of t that is l or wraps l.
Cancels(s, t, l, g) ==
  LET list == SlotList(s, Slot(s, s.ev, t))
      w == s.wrappers[g - NumFns]
  IN /\ w.type = t /\ w.listener = l /\ ~w.fired
     /\ \E i \in 1..Len(list) :
          /\ list[i] = g
          /\ \A j \in (i + 1)..Len(list) :
               list[j] # l /\ (IsWrapper(list[j]) => s.wrappers[list[j] - NumFns].listener # l)

CallRemoveListener(t, l) ==
  /\ Begin("removeListener", t, l, 0)
  /\ LET s0 == [Fresh EXCEPT !.wrappers =
                   [g \in 1..Len(wrappers) |->
                      IF Cancels(S, t, l, NumFns + g)
                      THEN [wrappers[g] EXCEPT !.cancelled = TRUE] ELSE wrappers[g]]]
     IN Commit(StartRemove(s0, t, l))

CallRemoveAllListeners(hasType, t) ==
  /\ Begin("removeAllListeners", IF hasType THEN t ELSE "", 0, 0)
  /\ Commit(StartRemoveAll(Fresh, hasType, t))

CallEmit(t, n) == Begin("emit", t, 0, n) /\ Commit(StartEmit(Fresh, t, UserArgs(n)))

\* events.resultFilter = filter, with a function, undefined or null; call.l keeps it.
CallSetFilter(filter) ==
  /\ Begin("setFilter", "", filter, 0)
  /\ Commit([Fresh EXCEPT !.rf = filter])

\* emit('error', er); call.l keeps the payload.
CallEmitError(er) == Begin("emit", "error", er, 1) /\ Commit(StartEmit(Fresh, "error", <<er>>))

\* handlers.map: the next handler of the snapshot is invoked.
Invoke ==
  /\ stack # <<>> /\ Top(S).k = "emit"
  /\ Top(S).i <= Len(Handlers(S, Top(S)))
  /\ Len(stack) < MaxDepth
  /\ LET f == Top(S)
         h == Handlers(S, f)[f.i]
         s1 == [S EXCEPT !.stack[Len(stack)].invoked = Append(@, h),
                         !.notified = Append(@, [type |-> "invoked",
                                                 args |-> <<TypeArg(f.type), h>>])]
     IN Commit(InvokeCase(s1, h, f.args, f.i))
  /\ UNCHANGED call

\* (mutant) the filter read when the results are aggregated.
FilterNow(s, f) == ResultFilter(s)

\* const resultFilter = this.getResultFilter(), read when emit was called.
FilterOf(s, f) == f.filter

\* Every handler was invoked: Promise.all(...), the filter, and emit returns.
EmitDone ==
  /\ stack # <<>> /\ Top(S).k = "emit"
  /\ Top(S).i > Len(Handlers(S, Top(S)))
  /\ LET f == Top(S)
         s1 == PromiseAll(Pop(S), f.results)
         P == LastPromise(s1)
         s2 == [s1 EXCEPT !.promises[P].hs = f.invoked, !.promises[P].snap = f.began]
         s3 == IF FilterOf(S, f) \notin Filters THEN s2
               ELSE LET s4 == Then(s2, P, "filter", FilterOf(S, f), <<>>)
                    IN [s4 EXCEPT !.promises[LastPromise(s4)].fn = FilterOf(S, f)]
     IN Commit(Return(s3, Ref(LastPromise(s3))))
  /\ UNCHANGED call

\* The engine runs the next promise job (the stack is empty).
RunJob ==
  /\ stack = <<>> /\ jobs # <<>>
  /\ Commit(Job([S EXCEPT !.jobs = Tail(@)], Head(jobs)))
  /\ UNCHANGED call

\* The asynchronous work of a listener ends, in a task of its own.
Settle(q, ok) ==
  /\ stack = <<>> /\ jobs = <<>>
  /\ promises[q].kind = "ext" /\ promises[q].st = "pending"
  /\ Commit(SettlePromise(S, q, IF ok THEN "fulfilled" ELSE "rejected",
                          IF ok THEN promises[q].fn
                          ELSE Err(promises[q].fn, promises[q].site), <<>>))
  /\ UNCHANGED call

Next ==
  \/ \E x \in Listeners : CallOn(x[1], x[2])
  \/ \E x \in Listeners : CallOnce(x[1], x[2])
  \/ \E x \in Removals : CallRemoveListener(x[1], x[2])
  \/ \E t \in Types : CallRemoveAllListeners(TRUE, t)
  \/ CallRemoveAllListeners(FALSE, "")
  \/ \E x \in Emits : CallEmit(x[1], x[2])
  \/ \E er \in Payloads : CallEmitError(er)
  \/ Invoke
  \/ EmitDone
  \/ RunJob
  \/ \E q \in 1..Len(promises), ok \in BOOLEAN : Settle(q, ok)

Spec == Init /\ [][Next]_vars

\* ------------------------------------------------------------------ a registry in use
\* The emitter after the program has registered listeners: what it registered, in
\* order, as <<type, listener, once>> (none of it for 'newListener', so that each
\* registration is an insertion that invoked nothing), every promise settled.
Preloads ==
  << << <<"foo", 1, FALSE>>, <<"foo", 2, FALSE>>, <<"foo", 1, FALSE>>,
        <<"removeListener", 1, FALSE>> >>,
     << <<"removeListener", 3, FALSE>>, <<"foo", 2, FALSE>>, <<"foo", 1, TRUE>>,
        <<"error", 1, FALSE>> >>,
     << <<"foo", 2, FALSE>>, <<"foo", 1, TRUE>>, <<"foo", 2, FALSE>>,
        <<"error", 1, FALSE>> >> >>

\* new EventEmitter(), with one of the registration programs ahead (call.args: which
\* one, call.l: how many of its registrations are made).
InitLoaded ==
  \E k \in 1..Len(Preloads) :
     /\ objs = <<EmptyObj>> /\ arrs = <<>> /\ _events = 1 /\ _eventsCount = 0
     /\ wrappers = <<>> /\ promises = <<>> /\ jobs = <<>> /\ stack = <<>>
     /\ clock = 0 /\ thrown = "" /\ out = Val(Undefined) /\ emittedExtraEvent = FALSE
     /\ _resultFilter = Undefined /\ defaultResultFilter = Undefined
     /\ notified = <<>>
     /\ call = [n |-> 1, op |-> "load", type |-> "", l |-> 0, args |-> k,
                reg |-> [x \in Types |-> <<>>], cnt |-> 0, rf |-> 0, own |-> 0, np |-> 0]

\* The registrations are made.
Loaded == call.op # "load"

\* The next registration of the program: on(type, listener) or once(type, listener).
Load ==
  /\ ~Loaded /\ stack = <<>>
  /\ LET regs == Preloads[call.args]
         r == regs[call.l + 1]
         s == IF r[3] THEN StartOnce(Fresh, r[1], r[2]) ELSE StartAdd(Fresh, r[1], r[2])
     IN /\ Commit([s EXCEPT !.out = Val(Undefined), !.notified = <<>>])
        /\ call' = IF call.l + 1 < Len(regs) THEN [call EXCEPT !.l = @ + 1]
                   ELSE [call EXCEPT !.op = "", !.l = 0, !.args = 0]

\* The program goes on with removals (and an emit) on that registry.
NextLoaded ==
  \/ Load
  \/ \E l \in {1, 2} : Loaded /\ CallRemoveListener("foo", l)
  \/ \E t \in {"foo", "newListener"} : Loaded /\ CallRemoveAllListeners(TRUE, t)
  \/ Loaded /\ CallRemoveAllListeners(FALSE, "")
  \/ Loaded /\ CallEmit("foo", 0)
  \/ Invoke
  \/ EmitDone
  \/ RunJob
  \/ \E q \in 1..Len(promises), ok \in BOOLEAN : Settle(q, ok)

SpecLoaded == InitLoaded /\ [][NextLoaded]_vars

\* ------------------------------------------------------------------ result filters
\* new EventEmitter(), EventEmitter.defaultResultFilter being set to filter 1 or not.
InitFilter == \E default \in {Undefined, 1} : Construct(default)

\* The program registers listeners of 'foo' (9 sets a filter when it runs), sets the
\* instance filter and emits.
NextFilter ==
  \/ \E l \in {1, 2, 3, 9} : CallOn("foo", l)
  \/ \E filter \in Filters \cup {Undefined, Null} : CallSetFilter(filter)
  \/ CallEmit("foo", 0)
  \/ Invoke
  \/ EmitDone
  \/ RunJob
  \/ \E q \in 1..Len(promises), ok \in BOOLEAN : Settle(q, ok)

SpecFilter == InitFilter /\ [][NextFilter]_vars

\* ------------------------------------------------------------------ what the claims read
RECURSIVE SumLen(_, _)
SumLen(s, ts) ==
  IF ts = {} THEN 0
  ELSE LET t == CHOOSE x \in ts : TRUE
       IN Len(SlotList(s, Slot(s, s.ev, t))) + SumLen(s, ts \ {t})
\* The listener occurrences over all slots of this._events.
Occurrences == SumLen(S, Types)
\* The listeners registered for a type, in order.
Registered(t) == SlotList(S, Slot(S, _events, t))
NoSlots == \A t \in Types : Slot(S, _events, t).k = "none"
\* A listener is about to be invoked.
AtInvocation == stack # <<>> /\ Top(S).k = "emit" /\ Top(S).i <= Len(Top(S).handlers)
Idle == stack = <<>> /\ jobs = <<>>

\* C1: at every point the program can observe (between its calls, and whenever a
\* listener is about to be invoked), _eventsCount is the number of listener
\* occurrences in this._events, and it is 0 exactly when there is no slot.
C1_CountIsOccurrences ==
  /\ _eventsCount = Occurrences
  /\ (_eventsCount = 0) <=> NoSlots
\* This step ends a call `op` of the program (the call returns to it without throwing).
Returns(op) ==
  /\ call'.op = op /\ stack' = <<>> /\ thrown' = ""
  /\ (call'.n # call.n \/ stack # <<>>)

\* C2: when addListener(type, listener) returns, listener is the last entry of the
\* slot of type in this._events and _eventsCount went up by one with the insertion.
C2_AddAppends ==
  [][Returns("on") =>
       /\ Registered(call.type)' # <<>>
       /\ Registered(call.type)'[Len(Registered(call.type)')] = call.l'
       /\ _eventsCount' = _eventsCount + 1]_vars

IsPrefix(a, b) == Len(a) <= Len(b) /\ a = SubSeq(b, 1, Len(a))
EmitFrames == {k \in 1..Len(stack) : stack[k].k = "emit"}
Aggregates == {q \in 1..Len(promises) : promises[q].kind = "all"}

\* C3: an emission invokes the listeners that were in the slot of its type when it
\* began, in that order and each once: while it runs, the listeners invoked so far are
\* a prefix of that list (whatever was added or removed since), and when it has
\* invoked its last listener they are exactly that list.
C3_InvokesSnapshot ==
  /\ \A k \in EmitFrames :
       /\ IsPrefix(stack[k].invoked, stack[k].began)
       /\ Len(stack[k].invoked) = (IF k = Len(stack) THEN stack[k].i - 1 ELSE stack[k].i)
  /\ \A q \in Aggregates : promises[q].hs = promises[q].snap

\* An emission invoked its two listeners although the first of them removed the
\* second from the slot: only the first is registered by now.
C3_Witness ==
  /\ AtInvocation = FALSE /\ stack # <<>>
  /\ LET f == Top(S)
     IN /\ Len(f.began) = 2 /\ f.invoked = f.began
        /\ Registered(f.type) = <<f.began[1]>>
        /\ f.began[1] # f.began[2]

InRegistry(l) == \E t \in Types : \E i \in 1..Len(Registered(t)) : Registered(t)[i] = l
\* The aggregate behind the promise an emission returned (the filter derives one from it).
Aggregate(q) == IF promises[q].kind = "filter" THEN promises[q].src ELSE q
\* The promises among the listener results that aggregate q collected.
Awaited(q) == {promises[q].elems[i].v : i \in {j \in 1..Len(promises[q].elems) :
                                                  promises[q].elems[j].p}}

\* C4: once the listener of a once wrapper g has started to run, g is not in
\* this._events, the promise its removeListener(type, g) returned is fulfilled, and
\* every result of the removeListener notification behind that promise is fulfilled.
C4_RemovedBeforeRun ==
  \A g \in 1..Len(wrappers) :
     wrappers[g].runs > 0 =>
       /\ ~InRegistry(NumFns + g)
       /\ wrappers[g].rm # 0
       /\ promises[wrappers[g].rm].st = "fulfilled"
       /\ \A e \in Awaited(Aggregate(wrappers[g].rm)) : promises[e].st = "fulfilled"

\* The listener of a once wrapper ran after a removeListener notification whose
\* subscriber had returned a promise that was pending for a while.
C4_Witness ==
  \E g \in 1..Len(wrappers) :
     /\ wrappers[g].runs = 1 /\ wrappers[g].rm # 0
     /\ promises[wrappers[g].rm].kind = "all"
     /\ \E e \in Awaited(wrappers[g].rm) : promises[e].kind = "ext"

\* No listener's asynchronous work is still under way.
NoWork == \A q \in 1..Len(promises) : ~(promises[q].kind = "ext" /\ promises[q].st = "pending")
Quiet == Idle /\ NoWork

C6_RemovedNeverFires ==
  \A g \in 1..Len(wrappers) :
     wrappers[g].cancelled => ~InRegistry(NumFns + g) /\ wrappers[g].runs = 0

\* once('foo', fn), removeListener('foo', fn) and a later emit('foo') that has
\* come to rest.
C6_Witness ==
  /\ Quiet /\ call.op = "emit" /\ call.type = "foo"
  /\ \E g \in 1..Len(wrappers) : wrappers[g].cancelled /\ wrappers[g].type = "foo"

\* The program of the test: once('removeListener', fn5) and once('foo', fn4), whose
\* listeners emit their own type again, then emit('foo').
ReEmitTest ==
  /\ call.n = 3 /\ call.op = "emit" /\ call.type = "foo"
  /\ Len(wrappers) = 2
  /\ wrappers[1].type = "removeListener" /\ wrappers[1].listener = 5
  /\ wrappers[2].type = "foo" /\ wrappers[2].listener = 4

\* C7: in that program neither listener runs twice, the emitter always has a next
\* step within the depth bound until everything has come to rest, and then each
\* listener has run exactly once, every promise (the nested emissions' and the outer
\* emit's) is fulfilled, and this._events is empty with a count of 0.
C7_NoReTrigger ==
  ReEmitTest =>
    /\ thrown = ""
    /\ \A g \in 1..2 : wrappers[g].runs <= 1
    /\ ~Idle => ENABLED (Invoke \/ EmitDone \/ RunJob)
    /\ Idle =>
         /\ \A g \in 1..2 : wrappers[g].runs = 1
         /\ out.p /\ promises[out.v].st = "fulfilled"
         /\ \A q \in 1..Len(promises) : promises[q].st = "fulfilled"
         /\ NoSlots /\ _eventsCount = 0

\* The test's program has come to rest after its nested emissions.
C7_Witness ==
  /\ ReEmitTest /\ Idle
  /\ wrappers[1].runs = 1 /\ wrappers[2].runs = 1
  /\ Cardinality(Aggregates) >= 2

\* The listeners of aggregate q (by position in its snapshot) whose result has failed.
Failed(q) ==
  {i \in 1..Len(promises[q].elems) :
     promises[q].elems[i].p /\ promises[promises[q].elems[i].v].st = "rejected"}
FailureOf(q, i) == promises[promises[q].elems[i].v].val
FailedAt(q, i) == promises[promises[q].elems[i].v].at
\* Those that had failed already when emit aggregated the results.
FailedEarly(q) == {i \in Failed(q) : FailedAt(q, i) <= promises[q].born}

\* C8 as claimed: when several listeners of a snapshot have failed, the failure of
\* the emission is that of the first of them in snapshot order.
C8_FirstInSnapshotOrder ==
  \A q \in Aggregates :
     (promises[q].st = "rejected" /\ Cardinality(Failed(q)) >= 2) =>
        \E i \in Failed(q) :
           /\ \A j \in Failed(q) : i <= j
           /\ promises[q].val = FailureOf(q, i)

\* C8 as amended: the failure of the emission is the first failure delivered to the
\* aggregation: the first in snapshot order among the listeners that had failed when
\* the results were aggregated (those that threw), and when there is none, the one
\* whose result failed earliest in time; the filtered outcome carries the same failure.
C8_FirstDelivered ==
  /\ \A q \in Aggregates :
       promises[q].st = "rejected" =>
          \E i \in Failed(q) :
             /\ promises[q].val = FailureOf(q, i)
             /\ IF FailedEarly(q) # {}
                THEN i \in FailedEarly(q) /\ \A j \in FailedEarly(q) : i <= j
                ELSE \A j \in Failed(q) : FailedAt(q, i) <= FailedAt(q, j)
  /\ \A q \in 1..Len(promises) :
       (promises[q].kind = "filter" /\ promises[q].st = "rejected")
         => /\ promises[promises[q].src].st = "rejected"
            /\ promises[q].val = promises[promises[q].src].val

\* Two listeners of one snapshot have failed and the emission carries the failure of
\* the one that failed first in time, which is not the first in snapshot order.
C8_Witness ==
  \E q \in Aggregates :
     /\ promises[q].st = "rejected" /\ Cardinality(Failed(q)) >= 2
     /\ \E i, j \in Failed(q) :
          /\ i < j /\ promises[q].val = FailureOf(q, j)
          /\ promises[q].val # FailureOf(q, i)

\* C9 as claimed: when the aggregate of an emission has settled, with success or
\* with failure, every result its listeners returned has settled.
C9_SettlesAfterAll ==
  \A q \in Aggregates :
     promises[q].st # "pending" => \A e \in Awaited(q) : promises[e].st # "pending"

\* C9 as amended: the aggregate of an emission fulfils only after every result its
\* listeners returned has fulfilled; it fails as soon as the first failure is
\* delivered, after that result has failed, whatever is still pending.
C9_FulfilsAfterAll ==
  \A q \in Aggregates :
     /\ promises[q].st = "fulfilled" =>
          \A e \in Awaited(q) :
             promises[e].st = "fulfilled" /\ promises[e].at < promises[q].at
     /\ promises[q].st = "rejected" =>
          \E i \in Failed(q) :
             promises[q].val = FailureOf(q, i) /\ FailedAt(q, i) < promises[q].at

\* An emission with two listeners has fulfilled after the result of one of them,
\* pending when the results were aggregated, fulfilled.
C9_Witness ==
  \E q \in Aggregates :
     /\ promises[q].st = "fulfilled" /\ Len(promises[q].elems) >= 2
     /\ \E e \in Awaited(q) :
          promises[e].kind = "ext" /\ promises[e].at > promises[q].born

\* C10: a listener that throws when an emission invokes it leaves a result failed
\* with exactly its error, and nothing is thrown into the caller of emit; the
\* aggregate of an emission has the results of all the listeners of its snapshot,
\* is never fulfilled when one of them threw, and once the program's emit (with 0
\* to 4 arguments) of a snapshot whose only listener throws has come to rest, its
\* outcome has failed with exactly that error.
C10_ThrowIsFailure ==
  /\ thrown # "Error"
  /\ \A k \in EmitFrames : \A j \in 1..Len(stack[k].results) :
       Throws(stack[k].invoked[j]) =>
         /\ stack[k].results[j].p
         /\ promises[stack[k].results[j].v].st = "rejected"
         /\ promises[stack[k].results[j].v].val = Err(stack[k].invoked[j], j)
  /\ \A q \in Aggregates :
       /\ promises[q].hs = promises[q].snap
       /\ Len(promises[q].elems) = Len(promises[q].snap)
       /\ (\E j \in 1..Len(promises[q].hs) : Throws(promises[q].hs[j]))
            => promises[q].st # "fulfilled"
  /\ (Idle /\ call.op = "emit" /\ out.p) =>
       LET q == Aggregate(out.v) IN
       (Len(promises[q].hs) = 1 /\ Throws(promises[q].hs[1])) =>
          /\ promises[out.v].st = "rejected"
          /\ promises[out.v].val = Err(promises[q].hs[1], 1)

\* emit('foo', a, b, c, d) whose snapshot had a throwing listener and then another
\* has come to rest: both were invoked, and the outcome failed with the error thrown.
C10_Witness ==
  /\ Idle /\ call.op = "emit" /\ call.args = 4 /\ out.p
  /\ promises[Aggregate(out.v)].hs = <<2, 1>>
  /\ promises[out.v].st = "rejected" /\ promises[out.v].val = Err(2, 1)

\* This step is the program's call `op` for type t.
Calls(op, t) == call'.n # call.n /\ call'.op = op /\ call'.type = t
\* The registry, as the program can observe it.
Registry == [t \in Types |-> Registered(t)]
\* The call changes nothing of the registry and invokes nothing.
NoEffect ==
  /\ _events' = _events /\ objs' = objs /\ arrs' = arrs
  /\ _eventsCount' = _eventsCount /\ wrappers' = wrappers
  /\ stack' = <<>> /\ jobs' = jobs
  /\ \A i \in 1..Len(notified') : notified'[i].type = "returned"

\* C11: emit('error', ...) when this._events has no slot for 'error' invokes nothing,
\* changes neither this._events nor the count, throws nothing, and returns a new
\* promise rejected with the payload when it is an Error, with an Error whose context
\* is the payload when it is another value, and with a generated Error when there is
\* none; with a slot for 'error' it takes the snapshot of that slot as for any type
\* and creates no rejection.
C11_UnhandledError ==
  [][Calls("emit", "error") =>
       IF Registered("error") = <<>>
       THEN /\ NoEffect /\ thrown' = ""
            /\ Len(promises') = Len(promises) + 1
            /\ out' = Ref(Len(promises'))
            /\ promises'[Len(promises')].st = "rejected"
            /\ promises'[Len(promises')].val =
                 (IF call'.args = 0 THEN GenericError
                  ELSE IF IsError(call'.l) THEN call'.l ELSE WrapError(call'.l))
       ELSE /\ promises' = promises /\ thrown' = ""
            /\ Len(stack') = 1 /\ stack'[1].k = "emit" /\ stack'[1].type = "error"
            /\ stack'[1].handlers = Registered("error")
            /\ stack'[1].invoked = <<>>]_vars

\* emit('error', er) with listeners registered, none of them for 'error', returned a
\* promise rejected with er.
C11_Witness ==
  /\ call.op = "emit" /\ call.type = "error" /\ call.l = UserError
  /\ _eventsCount > 0 /\ Registered("error") = <<>>
  /\ stack = <<>> /\ out.p /\ promises[out.v].st = "rejected"
  /\ promises[out.v].val = UserError

\* C12: every removeListener emission the emitter makes to subscribers carries the
\* type and the underlying listener, never a wrapper made by once().
C12_CarriesUnderlying ==
  \A i \in 1..Len(notified) :
     notified[i].type = "removeListener" => ~IsWrapper(notified[i].args[2])

\* The entries of one kind in the history of the program's last call, in order.
Made(kind) == SelectSeq(notified, LAMBDA e : e.type = kind)
\* The last k entries of a list, last first.
LastFirst(list, k) == [i \in 1..k |-> list[Len(list) - i + 1]]
\* The program's last call is removeAllListeners with this argument ("": none), made
\* when 'removeListener' had subscribers.
RemovingAll(t) ==
  /\ call.op = "removeAllListeners" /\ call.type = t
  /\ call.reg["removeListener"] # <<>>

\* C13: during and after removeAllListeners('foo') called with removeListener
\* subscribers (plain listeners, which stay subscribed), the removeListener
\* emissions made so far are for the listeners 'foo' had, last registered first, one
\* each, 'foo' holds the listeners not yet notified, the count has decreased by one
\* per removal and the other slots are as they were; when the call has returned
\* every listener of 'foo' was notified and 'foo' has no slot.
C13_RemovesLastFirst ==
  RemovingAll("foo") =>
    LET had == call.reg["foo"]
        made == Made("removeListener")
        k == Len(made)
    IN /\ thrown = ""
       /\ k <= Len(had)
       /\ \A i \in 1..k :
            /\ made[i].args[1] = TypeArg("foo")
            /\ Underlying(S, made[i].args[2]) = Underlying(S, LastFirst(had, k)[i])
       /\ Registered("foo") = SubSeq(had, 1, Len(had) - k)
       /\ _eventsCount = call.cnt - k
       /\ \A t \in Types \ {"foo"} : Registered(t) = call.reg[t]
       /\ stack = <<>> => k = Len(had)

\* removeAllListeners('foo') has returned after it removed three listeners.
C13_Witness ==
  /\ RemovingAll("foo") /\ Idle
  /\ Len(call.reg["foo"]) = 3 /\ Len(Made("removeListener")) = 3
  /\ Registered("foo") = <<>>

Others == Types \ {"removeListener"}
\* The listeners a registry (a function from types to lists) holds for the types ts.
RECURSIVE Holds(_, _)
Holds(reg, ts) ==
  IF ts = {} THEN 0
  ELSE LET t == CHOOSE x \in ts : TRUE IN Len(reg[t]) + Holds(reg, ts \ {t})
\* The emissions made so far to announce removals from the types ts.
Announced(ts) ==
  {i \in 1..Len(notified) :
     notified[i].type = "removeListener"
       /\ \E t \in ts : notified[i].args[1] = TypeArg(t)}

\* C14: during and after removeAllListeners() called with removeListener subscribers
\* (plain listeners), every listener so far removed from another type was announced
\* by one removeListener emission, the subscribers are all still registered as long
\* as another type has a listener, and when the call has returned every type is
\* without a slot and the count is 0.
C14_SubscribersLast ==
  RemovingAll("") =>
    /\ thrown = ""
    /\ \A t \in Types : IsPrefix(Registered(t), call.reg[t])
    /\ Cardinality(Announced(Others)) = Holds(call.reg, Others) - Holds(Registry, Others)
    /\ Holds(Registry, Others) > 0 => Registered("removeListener") = call.reg["removeListener"]
    /\ stack # <<>> => _eventsCount = Occurrences
    /\ stack = <<>> => NoSlots /\ _eventsCount = 0

\* removeAllListeners() has returned after it announced the removal of the listeners
\* of two other types, on a registry whose first key was 'removeListener'.
C14_Witness ==
  /\ RemovingAll("") /\ Idle /\ NoSlots
  /\ call.reg["foo"] # <<>> /\ call.reg["error"] # <<>>
  /\ Cardinality(Announced({"foo"})) = 2 /\ Cardinality(Announced({"error"})) = 1

\* C15: on, once (with two arguments) and removeListener called with a listener that
\* is no function throw 'listener must be a function' into the caller, and have
\* changed nothing: this._events, the count, the wrappers, the promises and the job
\* queue are as before, and no newListener or removeListener emission was made.
C15_InvalidListener ==
  [][(/\ call'.n # call.n /\ call'.op \in {"on", "once", "removeListener"}
      /\ call'.l = Undefined)
       => /\ thrown' = "listener must be a function"
          /\ NoEffect /\ promises' = promises /\ out' = Val(Undefined)]_vars

\* once('foo', undefined) has thrown while 'newListener' had a subscriber.
C15_Witness ==
  /\ call.op = "once" /\ call.l = Undefined /\ thrown = "listener must be a function"
  /\ Registered("newListener") # <<>> /\ notified = <<>> /\ wrappers = <<>>

\* The program's last call is an on or once that found newListener subscribers.
Adding == call.op \in {"on", "once"} /\ thrown = "" /\ call.reg["newListener"] # <<>>
\* The subscribers the call's newListener emission has invoked, in order.
Subscribers ==
  LET own == SelectSeq(notified, LAMBDA e : e.type \in {"invoked", "returned"})
      upto == IF \E i \in 1..Len(own) : own[i].type = "returned"
              THEN (CHOOSE i \in 1..Len(own) :
                      own[i].type = "returned"
                        /\ \A j \in 1..(i - 1) : own[j].type # "returned") - 1
              ELSE Len(own)
      inv == SelectSeq(SubSeq(own, 1, upto),
                       LAMBDA e : e.args[1] = TypeArg("newListener"))
  IN [i \in 1..Len(inv) |-> inv[i].args[2]]
\* The places in the history of the call itself (up to its return) of one kind.
Places(kind) ==
  {i \in 1..Len(notified) :
     /\ notified[i].type = kind
     /\ \A j \in 1..(i - 1) : notified[j].type # "returned"}
\* Those of the invocations of newListener subscribers, and the places (at any time)
\* where the listener of a once wrapper that was subscribed when the call came ran.
SubscriberPlaces ==
  {i \in Places("invoked") : notified[i].args[1] = TypeArg("newListener")}
OncePlaces ==
  {i \in 1..Len(notified) :
     /\ notified[i].type = "ran"
     /\ \E k \in 1..Len(call.reg["newListener"]) :
          call.reg["newListener"][k] = notified[i].args[1]}

\* C16 as claimed: in a call of on or once that found newListener subscribers, the
\* function of every subscriber, that of a subscriber registered with once
\* included, runs before the new listener is inserted.
C16_SubscribersBeforeInsert ==
  Adding => \A i \in SubscriberPlaces \cup OncePlaces : \A j \in Places("inserted") : i < j

\* C16 as amended: a call of on or once that found newListener subscribers emits
\* newListener first, with the type and the underlying listener, invokes the
\* entries of the 'newListener' slot as it was (the listener being added is not
\* among them), only then inserts, and returns; the listener of a subscriber
\* registered with once runs after the insertion and the return; a call that found
\* no subscriber emits nothing.
C16_EntriesBeforeInsert ==
  /\ Adding =>
       /\ notified[1] = [type |-> "newListener",
                         args |-> <<TypeArg(call.type), call.l>>]
       /\ Places("newListener") = {1}
       /\ IsPrefix(Subscribers, call.reg["newListener"])
       /\ \A i \in SubscriberPlaces : \A j \in Places("inserted") : i < j
       /\ Places("inserted") # {} => Subscribers = call.reg["newListener"]
       /\ \A i \in OncePlaces :
            Places("returned") # {} /\ \E j \in Places("inserted") : j < i
       /\ stack = <<>> => Cardinality(Places("inserted")) = 1
  /\ (call.op \in {"on", "once"} /\ thrown = "" /\ call.reg["newListener"] = <<>>)
       => Places("newListener") = {} /\ SubscriberPlaces = {}

\* once('newListener', fn) and another listener were registered, and an on() came:
\* the wrapper was invoked, the listener was inserted, and then fn ran.
C16_Witness ==
  /\ Adding /\ Idle /\ _eventsCount = call.cnt
  /\ OncePlaces # {} /\ SubscriberPlaces # {} /\ Places("inserted") # {}

\* The places of a list whose entry is l or a once wrapper of l.
MatchPlaces(list, l) ==
  {i \in 1..Len(list) :
     list[i] = l \/ (list[i] > NumFns /\ wrappers[list[i] - NumFns].listener = l)}
Last(places) == CHOOSE i \in places : \A j \in places : j <= i
Without(list, i) == [j \in 1..(Len(list) - 1) |-> IF j < i THEN list[j] ELSE list[j + 1]]

\* C17: removeListener('foo', l) called when 'foo' holds a sequence of listeners has,
\* when its first step ends, removed the last entry that is l or wraps l and no
\* other, kept the order of the rest, stored a single remaining listener as a
\* function, and decreased the count by 1, the other types untouched; when no entry
\* matches, or 'foo' has no slot, this._events and the count are unchanged and no
\* removeListener emission is made.
C17_RemovesLastMatch ==
  [][(Calls("removeListener", "foo") /\ IsFunction(call'.l) /\ Len(Registered("foo")) # 1)
       => LET list == Registered("foo")
              places == MatchPlaces(list, call'.l)
          IN /\ thrown' = ""
             /\ \A t \in Types \ {"foo"} : Registered(t)' = Registered(t)
             /\ IF places = {}
                THEN /\ Registered("foo")' = list /\ _eventsCount' = _eventsCount
                     /\ _events' = _events /\ objs' = objs /\ arrs' = arrs
                     /\ stack' = <<>> /\ Made("removeListener")' = <<>>
                ELSE /\ Registered("foo")' = Without(list, Last(places))
                     /\ _eventsCount' = _eventsCount - 1
                     /\ (Len(list) = 2) <=> (Slot(S, _events, "foo")'.k = "fn")
                     /\ (Len(list) > 2) <=> (Slot(S, _events, "foo")'.k = "arr")]_vars

\* removeListener('foo', fn1) came when 'foo' held fn1, fn2, fn1: it holds fn1, fn2.
C17_Witness ==
  /\ call.op = "removeListener" /\ call.type = "foo" /\ call.l = 1
  /\ call.reg["foo"] = <<1, 2, 1>> /\ Registered("foo") = <<1, 2>>
  /\ _eventsCount = call.cnt - 1

\* C18: removeAllListeners called when 'removeListener' has no subscriber returns in
\* one step a fulfilled promise, having invoked nothing and emitted nothing; without
\* an argument this._events is left with no slot and the count is 0; with a type
\* that type has no slot, the count has decreased by the number of listeners it had,
\* and the other types are as they were; for a type without a slot nothing changed.
C18_DirectRemoval ==
  [][(/\ call'.n # call.n /\ call'.op = "removeAllListeners"
      /\ Registered("removeListener") = <<>>)
       => /\ thrown' = "" /\ stack' = <<>> /\ wrappers' = wrappers /\ jobs' = jobs
          /\ Made("invoked")' = <<>> /\ Made("removeListener")' = <<>>
          /\ out'.p /\ promises'[out'.v].st = "fulfilled"
          /\ call'.type = "" => NoSlots' /\ _eventsCount' = 0
          /\ \A ty \in Types :
               call'.type = ty =>
                 /\ \A t \in Types \ {ty} : Registered(t)' = Registered(t)
                 /\ Registered(ty)' = <<>>
                 /\ _eventsCount' = _eventsCount - Len(Registered(ty))
                 /\ Registered(ty) = <<>>
                      => _events' = _events /\ objs' = objs /\ arrs' = arrs]_vars

\* removeAllListeners('foo') removed the three listeners of 'foo' and left the one
\* of 'error', without a removeListener subscriber.
C18_Witness ==
  /\ call.op = "removeAllListeners" /\ call.type = "foo"
  /\ call.reg["removeListener"] = <<>> /\ Len(call.reg["foo"]) = 3
  /\ Registered("foo") = <<>> /\ Registered("error") = <<1>>
  /\ _eventsCount = 1 /\ Made("invoked") = <<>>

\* The promises emit returned after .then(results => results.filter(resultFilter)).
Filtered == {q \in 1..Len(promises) : promises[q].kind = "filter"}
\* The result filter in effect now: this._resultFilter, else the default.
InEffect == ResultFilter(S)
\* results.filter(f).
Keep(f, results) == SelectSeq(results, LAMBDA v : FilterFn(f, v))

\* C19: the promise of an emission that found a result filter in effect fulfils only
\* with the results of its listeners, in order, that this filter keeps, the
\* aggregate of the results being fulfilled; it fails only with the failure of the
\* aggregate and with no filtered result, and once everything has come to rest it
\* has fulfilled or failed as the aggregate did. The emit('foo') of the program
\* that found listeners returns such a promise exactly when a filter was in effect
\* at the call (what the instance filter was set to unless it is undefined, else
\* the default; null is no filter), and its filter is that one, whatever filter
\* the listeners set meanwhile.
C19_FilterInEffect ==
  /\ \A q \in Filtered :
       LET P == promises[promises[q].src] IN
       /\ promises[q].fn \in Filters /\ P.kind = "all"
       /\ promises[q].st = "fulfilled"
            => P.st = "fulfilled" /\ promises[q].res = Keep(promises[q].fn, P.res)
       /\ promises[q].st = "rejected"
            => P.st = "rejected" /\ promises[q].val = P.val /\ promises[q].res = <<>>
       /\ Quiet => promises[q].st = P.st
  /\ (call.op = "emit" /\ call.type = "foo" /\ call.reg["foo"] # <<>> /\ stack = <<>>)
       => /\ thrown = "" /\ out.p
          /\ call.rf = (IF call.own # Undefined \/ defaultResultFilter = Undefined
                        THEN call.own ELSE defaultResultFilter)
          /\ (out.v \in Filtered) <=> (call.rf \in Filters)
          /\ call.rf \in Filters => promises[out.v].fn = call.rf

\* With only the default filter in effect, emit('foo') called listener 9, which set
\* another filter, and a listener returning a value: the promise emit returned has
\* fulfilled with what the default filter keeps, not with what the new one keeps.
C19_Witness ==
  /\ call.op = "emit" /\ call.type = "foo" /\ stack = <<>> /\ out.p
  /\ out.v \in Filtered /\ promises[out.v].st = "fulfilled"
  /\ call.rf = 1 /\ defaultResultFilter = 1 /\ InEffect = 2
  /\ promises[promises[out.v].src].res = <<Undefined, 1>>
  /\ promises[out.v].res = <<1>>

\* The emissions (their aggregates) made during the program's last call, a
\* removeAllListeners that has returned the promise out: the promises created since
\* the call, up to the one it returned.
Triggered == {q \in Aggregates : call.np < q /\ q <= out.v}

\* C20 as claimed: when the promise that removeAllListeners returned, called with or
\* without a type while 'removeListener' had subscribers, has settled, every
\* removeListener emission the call made has settled, and if one of them has failed
\* the promise has failed.
C20_AwaitsNotifications ==
  (/\ call.op = "removeAllListeners" /\ call.reg["removeListener"] # <<>>
   /\ stack = <<>> /\ thrown = "" /\ out.p /\ promises[out.v].st # "pending")
     => /\ \A q \in Triggered : promises[q].st # "pending"
        /\ (\E q \in Triggered : promises[q].st = "rejected")
             => promises[out.v].st = "rejected"

\* The once wrappers an emission has triggered and that have removed themselves:
\* g has fired, its removeListener(type, g) has returned and g is not registered.
Consumed ==
  {g \in 1..Len(wrappers) :
     wrappers[g].fired /\ wrappers[g].rm # 0 /\ ~InRegistry(NumFns + g)}

\* C21 as claimed: the listener of a once wrapper never runs twice, and once
\* everything has come to rest the listener of every wrapper that an emission
\* triggered and that removed itself has run exactly once, whether the
\* removeListener emission of that removal fulfilled or failed.
C21_ConsumedHasRun ==
  /\ \A g \in 1..Len(wrappers) : wrappers[g].runs <= 1
  /\ Quiet => \A g \in Consumed : wrappers[g].runs = 1

====
